---- MODULE Spec2Model ----
(***************************************************************************)
(* A model of app.py, the airline demand dashboard: the OpenFlights feed   *)
(* parser (fetch_openflights), the route network builder (prepare_routes), *)
(* the route ranking, the trend simulators and the live flight gateway.    *)
(*                                                                         *)
(* Strings are sequences of one-character strings, so that concatenation   *)
(* (+) is \o and the lexicographic order pandas sorts by can be computed.  *)
(* A raw feed is a sequence of lines, a line a sequence of fields: the     *)
(* splitting of a line at its commas is not modelled, everything           *)
(* pd.read_csv does with the fields is.                                    *)
(***************************************************************************)
EXTENDS Integers, Sequences, FiniteSets, TLC

VARIABLES
    pc,               \* position of the script run (feed pipeline)
    requests_sent,    \* number of HTTP GETs issued for the two feeds
    airports_resp,    \* response to GET airports.dat
    routes_resp,      \* response to GET routes.dat
    error,            \* exception that ended the script run, or "none"
    airports,         \* parsed airports table (fetch_openflights)
    routes_raw,       \* parsed routes table (fetch_openflights)
    routes,           \* the enriched route table (prepare_routes)
    country_filter,   \* the sidebar's country filter
    routes_filtered,  \* routes after the country filter
    route_counts,     \* the ranking
    api_key,          \* AVIATIONSTACK_KEY, as os.getenv returned it
    origin,           \* SourceIATA of the selected route, or None
    destination,      \* DestIATA of the selected route, or None
    api_outcome,      \* what the AviationStack request of the last click met
    api_requests,     \* number of HTTP GETs issued to AviationStack
    flights,          \* what get_live_flights returned at the last click
    shown,            \* what the live flights section shows
    hash_secret,      \* the process's string hash: hash(route) of each route
    clock,            \* index of the present moment in Moments
    prev_call,        \* the simulator call before the last one
    last_call         \* the last simulator call: arguments and result

feedVars == <<pc, requests_sent, airports_resp, routes_resp, error, airports,
              routes_raw, routes, country_filter, routes_filtered, route_counts>>

liveVars == <<api_key, origin, destination, api_outcome, api_requests, flights, shown>>

simVars == <<hash_secret, clock, prev_call, last_call>>

-----------------------------------------------------------------------------
(* Bounds of the model *)

\* most months asked of a simulator
MaxMonths == 2

\* most flight records in a response of AviationStack
MaxFlights == 2

\* most requests to AviationStack in a behaviour
MaxApiRequests == 3

\* longest routes.dat payload, in lines
MaxRoutes == 4

-----------------------------------------------------------------------------
(* Strings *)

\* the characters in use, in code point order
Alphabet == <<"-", "A", "B", "C", "D", "E", "H", "K", "L", "M", "N", "R", "S", "Y",
              "Z", "\\", "a", "d", "e", "i", "l", "n", "r", "s", "t", "u", "w", "x">>

Ord(c) == CHOOSE i \in 1..Len(Alphabet) : Alphabet[i] = c

Min(a, b) == IF a <= b THEN a ELSE b

\* s < t for two strings, as Python compares them
StrLess(s, t) ==
    \E k \in 1..(Min(Len(s), Len(t)) + 1) :
        /\ \A j \in 1..(k - 1) : s[j] = t[j]
        /\ IF k > Len(s) THEN k <= Len(t)
           ELSE k <= Len(t) /\ Ord(s[k]) < Ord(t[k])

\* the missing value of a pandas object column
NaN == <<"nan">>

\* the sentinel of the OpenFlights feeds for an absent field: \N
Sentinel == <<"\\", "N">>

Empty == <<>>
X == <<"x">>
SYD == <<"S", "Y", "D">>
MEL == <<"M", "E", "L">>
BNE == <<"B", "N", "E">>
AKL == <<"A", "K", "L">>
Australia == <<"A", "u", "s", "t", "r", "a", "l", "i", "a">>
NewZealand == <<"N", "e", "w", "Z", "e", "a", "l", "a", "n", "d">>
Austria == <<"A", "u", "s", "t", "r", "i", "a">>
All == <<"A", "l", "l">>

\* a + b on two cells of an object column: a missing operand gives a missing result
StrAdd(a, b) == IF a = NaN \/ b = NaN THEN NaN ELSE a \o b

-----------------------------------------------------------------------------
(* pd.read_csv(io.StringIO(text), header=None, dtype=str) *)

\* the field values read_csv takes for a missing value (those in use here)
NaValues == {Empty, <<"N", "A">>, <<"N", "a", "N">>, <<"n", "a", "n">>}

RECURSIVE MaxLineLenFrom(_, _)
MaxLineLenFrom(lines, i) ==
    IF i > Len(lines) THEN 0
    ELSE LET rest == MaxLineLenFrom(lines, i + 1)
         IN  IF Len(lines[i]) > rest THEN Len(lines[i]) ELSE rest

\* The table's width is the field count of the first line.  A later line with
\* more fields is a ParserError ("Expected n fields in line k, saw m"); a line
\* with fewer fields is padded with missing values and kept.  An empty payload
\* is an EmptyDataError.
ReadCsv(lines) ==
    IF Len(lines) = 0 THEN [err |-> "EmptyDataError", width |-> 0, rows |-> <<>>]
    ELSE LET width == Len(lines[1])
         IN  IF MaxLineLenFrom(lines, 1) > width
             THEN [err |-> "ParserError", width |-> width, rows |-> <<>>]
             ELSE [err |-> "none", width |-> width,
                   rows |-> [i \in 1..Len(lines) |->
                              [j \in 1..width |->
                                IF j > Len(lines[i]) THEN NaN
                                ELSE IF lines[i][j] \in NaValues THEN NaN
                                ELSE lines[i][j]]]]

AirportColumns == <<"AirportID", "Name", "City", "Country", "IATA", "ICAO", "Latitude",
                    "Longitude", "Altitude", "Timezone", "DST", "TzDatabaseTimeZone",
                    "Type", "Source">>

RouteColumns == <<"Airline", "AirlineID", "SourceIATA", "SourceAirportID",
                  "DestIATA", "DestAirportID", "Codeshare", "Stops", "Equipment">>

ColumnSet(columns) == {columns[i] : i \in 1..Len(columns)}

\* df.columns = [...]: the rows become records over the column names
SetColumns(rows, columns) ==
    [i \in 1..Len(rows) |->
        [c \in ColumnSet(columns) |->
            rows[i][CHOOSE j \in 1..Len(columns) : columns[j] = c]]]

-----------------------------------------------------------------------------
(* The two feeds and their HTTP responses *)

\* a line of routes.dat with n fields, of which the third is SourceIATA and
\* the fifth DestIATA
RouteLine(src, dst, n) ==
    [j \in 1..n |-> IF j = 3 THEN src ELSE IF j = 5 THEN dst ELSE X]

\* a line of airports.dat with n fields, of which the fourth is Country and
\* the fifth IATA
AirportLine(iata, country, n) ==
    [j \in 1..n |-> IF j = 4 THEN country ELSE IF j = 5 THEN iata ELSE X]

SeqsUpTo(S, n) == UNION {[1..k -> S] : k \in 0..n}

\* the lines a routes.dat payload is made of: well-formed ones, one with the
\* sentinel, one with an empty source code, one short and one long
RouteLines ==
    { RouteLine(SYD, MEL, 9), RouteLine(SYD, BNE, 9), RouteLine(SYD, Sentinel, 9),
      RouteLine(Empty, MEL, 9), RouteLine(AKL, SYD, 8), RouteLine(SYD, MEL, 10) }

RouteFeeds == SeqsUpTo(RouteLines, MaxRoutes)

\* the airports.dat payloads: a clean one, one with an IATA code twice, one with
\* a sentinel and a short line, one with a long line, one whose first line is short
AirportFeeds ==
    { << AirportLine(SYD, Australia, 14), AirportLine(MEL, Australia, 14),
         AirportLine(AKL, NewZealand, 14) >>,
      << AirportLine(SYD, Australia, 14), AirportLine(SYD, Austria, 14),
         AirportLine(MEL, Australia, 14) >>,
      << AirportLine(SYD, Australia, 14), AirportLine(Sentinel, Australia, 14),
         AirportLine(MEL, Australia, 13) >>,
      << AirportLine(SYD, Australia, 14), AirportLine(MEL, Australia, 15) >>,
      << AirportLine(SYD, Australia, 13), AirportLine(MEL, Australia, 14) >> }

\* the body of a response that is no feed: one line of one field
ErrorPage == << <<X>> >>

NoResponse == [kind |-> "none", body |-> <<>>]
TransportError == [kind |-> "transport_error", body |-> <<>>]

\* requests.get(url): a 2xx response with a feed, a non-2xx response with some
\* body (an error page, or the text of a feed), or a raised transport failure
AirportResponses ==
    [kind : {"ok"}, body : AirportFeeds]
    \cup [kind : {"http_error"},
          body : {ErrorPage, << AirportLine(SYD, Australia, 14),
                                AirportLine(MEL, Australia, 14) >>}]
    \cup {TransportError}

RouteResponses ==
    [kind : {"ok"}, body : RouteFeeds]
    \cup [kind : {"http_error"}, body : {ErrorPage, << RouteLine(SYD, MEL, 9) >>}]
    \cup {TransportError}

-----------------------------------------------------------------------------
(* fetch_openflights *)

\* routes.dropna(subset=["SourceIATA", "DestIATA"])
DropNa(rows) ==
    LET Keep(r) == r.SourceIATA # NaN /\ r.DestIATA # NaN
    IN  SelectSeq(rows, Keep)

\* the parse of one payload: read_csv, then the assignment of the column
\* names, a ValueError (length mismatch) unless the table has that many columns
ParseFeed(body, columns) ==
    LET t == ReadCsv(body)
    IN  IF t.err # "none" THEN [err |-> t.err, rows |-> <<>>]
        ELSE IF t.width # Len(columns) THEN [err |-> "ValueError", rows |-> <<>>]
        ELSE [err |-> "none", rows |-> SetColumns(t.rows, columns)]

\* What fetch_openflights does with the two responses: the exception that ends
\* it (or "none"), the number of GETs issued, and the two tables returned.
\* The status of a response is never looked at: .text is taken of any response.
FetchResult(ar, rr) ==
    LET a == ParseFeed(ar.body, AirportColumns)
        r == ParseFeed(rr.body, RouteColumns)
        Failed(e, n) == [error |-> e, sent |-> n, airports |-> <<>>, routes |-> <<>>]
    IN  IF ar.kind = "transport_error" THEN Failed("ConnectionError", 1)
        ELSE IF rr.kind = "transport_error" THEN Failed("ConnectionError", 2)
        ELSE IF a.err # "none" THEN Failed(a.err, 2)
        ELSE IF r.err # "none" THEN Failed(r.err, 2)
        ELSE [error |-> "none", sent |-> 2, airports |-> a.rows,
              routes |-> DropNa(r.rows)]

FetchOpenflights ==
    /\ pc = "start"
    /\ \E ar \in AirportResponses, rr \in RouteResponses :
         LET res == FetchResult(ar, rr)
         IN  /\ airports_resp' = ar
             /\ routes_resp' = IF res.sent = 2 THEN rr ELSE NoResponse
             /\ requests_sent' = res.sent
             /\ error' = res.error
             /\ airports' = res.airports
             /\ routes_raw' = res.routes
             /\ pc' = IF res.error = "none" THEN "fetched" ELSE "crashed"
    /\ UNCHANGED <<routes, country_filter, routes_filtered, route_counts>>
    /\ UNCHANGED <<liveVars, simVars>>

-----------------------------------------------------------------------------
(* prepare_routes *)

\* airports[airports.IATA.notna()], then a[a.IATA != "\\N"]
JoinableAirports(rows) ==
    LET Keep(a) == a.IATA # NaN /\ a.IATA # Sentinel
    IN  SelectSeq(rows, Keep)

\* the sentinel filter with the destination left unchecked
WithoutSentinelSourceOnly(rows) ==
    LET Keep(r) == r.SourceIATA # Sentinel
    IN  SelectSeq(rows, Keep)

\* r[(r.SourceIATA != "\\N") & (r.DestIATA != "\\N")]
WithoutSentinel(rows) ==
    LET Keep(r) == r.SourceIATA # Sentinel /\ r.DestIATA # Sentinel
    IN  SelectSeq(rows, Keep)

\* the five airport columns a merge carries over, renamed with a prefix
SourceFields(a) ==
    [SourceCity |-> a.City, SourceCountry |-> a.Country, SourceName |-> a.Name,
     SourceLat |-> a.Latitude, SourceLon |-> a.Longitude]

DestFields(a) ==
    [DestCity |-> a.City, DestCountry |-> a.Country, DestName |-> a.Name,
     DestLat |-> a.Latitude, DestLon |-> a.Longitude]

\* the airport columns of a left row that matches no airport
NoAirport ==
    [City |-> NaN, Country |-> NaN, Name |-> NaN, Latitude |-> NaN, Longitude |-> NaN,
     IATA |-> NaN]

\* the airports a left join pairs with a left row: those with the row's
\* code, in the airports' order, or one of missing values if there is none
JoinMatches(code, a) ==
    LET Match(x) == x.IATA = code
        found == SelectSeq(a, Match)
    IN  IF Len(found) = 0 THEN << NoAirport >> ELSE found

\* r.merge(a[...], left_on="SourceIATA", right_on="IATA", how="left")
\*  .rename(...).drop(columns=["IATA"])
RECURSIVE MergeSource(_, _, _)
MergeSource(r, i, a) ==
    IF i > Len(r) THEN <<>>
    ELSE LET found == JoinMatches(r[i].SourceIATA, a)
         IN  [k \in 1..Len(found) |-> r[i] @@ SourceFields(found[k])]
             \o MergeSource(r, i + 1, a)

\* r.merge(a[...], left_on="DestIATA", right_on="IATA", how="left")
\*  .rename(...).drop(columns=["IATA"])
RECURSIVE MergeDest(_, _, _)
MergeDest(r, i, a) ==
    IF i > Len(r) THEN <<>>
    ELSE LET found == JoinMatches(r[i].DestIATA, a)
         IN  [k \in 1..Len(found) |-> r[i] @@ DestFields(found[k])]
             \o MergeDest(r, i + 1, a)

\* r["route"] = r["SourceIATA"] + "-" + r["DestIATA"]
AddRoute(rows) ==
    [i \in 1..Len(rows) |->
        rows[i] @@ [route |-> StrAdd(StrAdd(rows[i].SourceIATA, <<"-">>), rows[i].DestIATA)]]

prepare_routes(airportsTable, routesTable) ==
    LET a == JoinableAirports(airportsTable)
        r == WithoutSentinel(routesTable)
        r1 == MergeSource(r, 1, a)
        r2 == MergeDest(r1, 1, a)
    IN  AddRoute(r2)

PrepareRoutes ==
    /\ pc = "fetched"
    /\ routes' = prepare_routes(airports, routes_raw)
    /\ pc' = "prepared"
    /\ UNCHANGED <<requests_sent, airports_resp, routes_resp, error, airports,
                   routes_raw, country_filter, routes_filtered, route_counts>>
    /\ UNCHANGED <<liveVars, simVars>>

-----------------------------------------------------------------------------
(* The sidebar's country filter *)

\* ["All"] + sorted(routes.SourceCountry.dropna().unique()), as a set
CountryOptions(rows) ==
    {All} \cup {rows[i].SourceCountry : i \in {j \in 1..Len(rows) : rows[j].SourceCountry # NaN}}

\* routes if country_filter == "All" else routes[routes.SourceCountry == country_filter]
FilterByCountry(rows, cf) ==
    LET Keep(r) == r.SourceCountry = cf
    IN  IF cf = All THEN rows ELSE SelectSeq(rows, Keep)

SidebarFilter ==
    /\ pc = "prepared"
    /\ \E cf \in CountryOptions(routes) :
         /\ country_filter' = cf
         /\ routes_filtered' = FilterByCountry(routes, cf)
    /\ pc' = "filtered"
    /\ UNCHANGED <<requests_sent, airports_resp, routes_resp, error, airports,
                   routes_raw, routes, route_counts>>
    /\ UNCHANGED <<liveVars, simVars>>

-----------------------------------------------------------------------------
(* The route ranking *)

\* a tally that adds a group for a new key and counts no further row of it
RECURSIVE TallyOnce(_, _, _)
TallyOnce(groups, i, key) ==
    IF i > Len(groups) THEN groups \o << [route |-> key, count |-> 1] >>
    ELSE IF groups[i].route = key THEN groups
    ELSE IF StrLess(key, groups[i].route)
         THEN SubSeq(groups, 1, i - 1) \o << [route |-> key, count |-> 1] >>
              \o SubSeq(groups, i, Len(groups))
    ELSE TallyOnce(groups, i + 1, key)

\* one more row with this key tallied into the groups, which are kept in
\* ascending order of their key (groupby sorts the group keys)
RECURSIVE Tally(_, _, _)
Tally(groups, i, key) ==
    IF i > Len(groups) THEN groups \o << [route |-> key, count |-> 1] >>
    ELSE IF groups[i].route = key
         THEN [groups EXCEPT ![i].count = @ + 1]
    ELSE IF StrLess(key, groups[i].route)
         THEN SubSeq(groups, 1, i - 1) \o << [route |-> key, count |-> 1] >>
              \o SubSeq(groups, i, Len(groups))
    ELSE Tally(groups, i + 1, key)

\* routes_filtered.groupby("route").size().reset_index(name="count"):
\* one record per route identifier, in ascending order of the identifiers;
\* rows without an identifier are in no group
RECURSIVE GroupBySize(_, _)
GroupBySize(rows, n) ==
    IF n = 0 THEN <<>>
    ELSE LET groups == GroupBySize(rows, n - 1)
         IN  IF rows[n].route = NaN THEN groups ELSE Tally(groups, 1, rows[n].route)

Arrangements(n) == {p \in [1..n -> 1..n] : \A i, j \in 1..n : i # j => p[i] # p[j]}

\* the outcomes of the sort with ascending=True
SortValuesAscending(groups) ==
    { [i \in 1..Len(groups) |-> groups[p[i]]] :
        p \in {q \in Arrangements(Len(groups)) :
                 \A i \in 1..(Len(groups) - 1) :
                     groups[q[i]].count <= groups[q[i + 1]].count} }

\* The outcomes of .sort_values("count", ascending=False): the sort is the
\* default one (kind="quicksort"), which is not stable, so every arrangement
\* of the records with the counts in descending order is one
SortValuesDescending(groups) ==
    { [i \in 1..Len(groups) |-> groups[p[i]]] :
        p \in {q \in Arrangements(Len(groups)) :
                 \A i \in 1..(Len(groups) - 1) :
                     groups[q[i]].count >= groups[q[i + 1]].count} }

RouteRanking ==
    /\ pc = "filtered"
    /\ route_counts' \in SortValuesDescending(GroupBySize(routes_filtered, Len(routes_filtered)))
    /\ pc' = "ranked"
    /\ UNCHANGED <<requests_sent, airports_resp, routes_resp, error, airports,
                   routes_raw, routes, country_filter, routes_filtered>>
    /\ UNCHANGED <<liveVars, simVars>>

-----------------------------------------------------------------------------
(* The live flight gateway and its caller *)

\* Python's None
None == <<"None">>

\* os.getenv("AVIATIONSTACK_KEY"): unset, set to the empty string, or set
ApiKeys == {None, Empty, <<"k">>}

\* "not x" of Python, for None and strings
Falsy(x) == x = None \/ x = Empty

\* the flight records of a response: any of the displayed fields may be absent
FlightRecords ==
    { [flight_status |-> "active", departure_iata |-> "SYD", aircraft |-> "x"],
      [flight_status |-> "landed"] }

\* the displayed columns (three of the eight of the source suffice here)
DisplayColumns == {"airline_name", "departure_iata", "flight_status"}

\* What the GET meets: a timeout, a connection failure, a non-2xx status
\* (raise_for_status raises), a body that is no JSON (resp.json() raises), or
\* a 2xx response whose JSON object has a data array or lacks it
ApiOutcomes ==
    [kind : {"timeout", "connection_error", "http_error", "malformed_json"},
     body : {[pagination |-> "x"]}]
    \cup [kind : {"ok"},
          body : {[pagination |-> "x"]}
                 \cup [pagination : {"x"}, data : SeqsUpTo(FlightRecords, MaxFlights)]]

NotCalled == [kind |-> "not_called", body |-> [pagination |-> "x"]]

\* str(e) of the exception each failure raises
ExceptionText(kind) ==
    CASE kind = "timeout" -> "Read timed out. (read timeout=10)"
      [] kind = "connection_error" -> "Max retries exceeded"
      [] kind = "http_error" -> "403 Client Error: Forbidden for url"
      [] kind = "malformed_json" -> "Expecting value: line 1 column 1 (char 0)"

MissingKeyText == "AVIATIONSTACK_KEY missing. Add it to .env or Streamlit Secrets."

\* get_live_flights: the dict returned and the number of GETs issued
get_live_flights(key, outcome) ==
    IF Falsy(key) THEN [ret |-> [error |-> MissingKeyText], sent |-> 0]
    ELSE IF outcome.kind = "ok" THEN [ret |-> outcome.body, sent |-> 1]
    ELSE [ret |-> [error |-> ExceptionText(outcome.kind)], sent |-> 1]

\* pd.json_normalize(data), then df[[c for c in cols if c in df.columns]]
FlightTable(data) ==
    LET columns == DisplayColumns \cap UNION {DOMAIN data[i] : i \in 1..Len(data)}
    IN  [i \in 1..Len(data) |->
            [c \in columns |-> IF c \in DOMAIN data[i] THEN data[i][c] ELSE "nan"]]

InfoText == "No live flights found for this route."

\* the branches under the button without the one for an error
RenderWithoutErrorBranch(result) ==
    LET data == IF "data" \in DOMAIN result THEN result.data ELSE <<>>
    IN  IF Len(data) = 0 THEN [kind |-> "info", text |-> InfoText]
        ELSE [kind |-> "dataframe", rows |-> FlightTable(data)]

\* the branches under the button: st.error, st.info or st.dataframe
Render(result) ==
    IF "error" \in DOMAIN result THEN [kind |-> "error", text |-> result.error]
    ELSE LET data == IF "data" \in DOMAIN result THEN result.data ELSE <<>>
         IN  IF Len(data) = 0 THEN [kind |-> "info", text |-> InfoText]
             ELSE [kind |-> "dataframe", rows |-> FlightTable(data)]

Nothing == [kind |-> "nothing"]

\* the origin and destination of the selected route, or None for both when
\* the lookup of the route raises
LiveRoutes == {<<SYD, MEL>>, <<SYD, BNE>>, <<None, None>>}

\* a rerun of the script with a route selected and the button not pressed
SelectRoute ==
    /\ \E r \in LiveRoutes : origin' = r[1] /\ destination' = r[2]
    /\ shown' = Nothing
    /\ UNCHANGED <<api_key, api_outcome, api_requests, flights>>
    /\ UNCHANGED <<feedVars, simVars>>

\* a rerun with the button "Get Live Flights" pressed
GetLiveFlightsClick ==
    /\ ~Falsy(origin) /\ ~Falsy(destination)
    /\ api_requests < MaxApiRequests
    /\ \E outcome \in ApiOutcomes :
         LET res == get_live_flights(api_key, outcome)
         IN  /\ api_outcome' = IF res.sent = 1 THEN outcome ELSE NotCalled
             /\ api_requests' = api_requests + res.sent
             /\ flights' = res.ret
             /\ shown' = Render(res.ret)
    /\ UNCHANGED <<api_key, origin, destination>>
    /\ UNCHANGED <<feedVars, simVars>>

-----------------------------------------------------------------------------
(* The trend simulators.  Prices and the terms they are summed from are in  *)
(* thousandths; a timestamp is a date and a time of day.                    *)

LHR == <<"L", "H", "R">>
CDG == <<"C", "D", "G">>

\* the route identifiers simulated
SimRoutes == {SYD \o <<"-">> \o MEL, LHR \o <<"-">> \o CDG}

\* hash(route) is the string hash of the interpreter, keyed by a secret drawn
\* when the process starts (PYTHONHASHSEED unset): values a route may hash to
HashValues == {-3, 7, 57}

HashSecrets == [SimRoutes -> HashValues]

\* the seeds passed (the call site passes 42)
Seeds == {42, 7}

\* 1000 * sin(2 * pi * t / 12)
SinTable == <<0, 500, 866, 1000, 866, 500, 0, -500, -866, -1000, -866, -500>>

Sin1000(t) == SinTable[(t % 12) + 1]

\* the state of the generator np.random.default_rng(seed) after n draws: a
\* linear congruential stand-in for PCG64, a function of the seed and n alone
RECURSIVE RngState(_, _)
RngState(seed, n) ==
    IF n = 0 THEN seed % 65537
    ELSE (75 * RngState(seed, n - 1) + 74) % 65537

\* the draw with index t of rng.normal(0, 1, size=months), in thousandths
StdNormal(seed, t) == (RngState(seed, t + 1) % 6001) - 3000

\* the moments at which pd.Timestamp.today() is read, in time order:
\* one in the middle of a month, one on the last day of a month
Moments ==
    << [y |-> 2024, m |-> 1, d |-> 15, tod |-> 10],
       [y |-> 2024, m |-> 2, d |-> 29, tod |-> 9] >>

IsLeap(y) == (y % 4 = 0 /\ y % 100 # 0) \/ y % 400 = 0

DaysInMonth(y, m) ==
    IF m = 2 THEN (IF IsLeap(y) THEN 29 ELSE 28)
    ELSE IF m \in {4, 6, 9, 11} THEN 30 ELSE 31

\* the months counted from year 0
MonthIndex(ts) == 12 * ts.y + (ts.m - 1)

\* the last day of the month with this index, at this time of day
MonthEnd(idx, tod) ==
    [y |-> idx \div 12, m |-> (idx % 12) + 1,
     d |-> DaysInMonth(idx \div 12, (idx % 12) + 1), tod |-> tod]

\* pd.date_range(end=end, periods=periods, freq="M"): month ends.  An end that
\* is no month end is rolled back to the month end before it; the time of
\* day of end stays on every timestamp.
DateRangeMonthly(end, periods) ==
    LET lastIdx == IF end.d = DaysInMonth(end.y, end.m) THEN MonthIndex(end)
                   ELSE MonthIndex(end) - 1
    IN  [k \in 1..periods |-> MonthEnd(lastIdx - (periods - k), end.tod)]

\* base = 100 + (hash(route) % 50)
PriceBase(h) == 100 + (h % 50)

\* base = 500 + (hash(route) % 200)
BookingBase(h) == 500 + (h % 200)

\* a price simulator whose generator is seeded from the route as well
simulate_price_trend_route_seeded(months, seed, h, now) ==
    [month |-> DateRangeMonthly(now, months),
     values |-> [k \in 1..months |->
                   1000 * PriceBase(h) + 15 * Sin1000(k - 1) + 500 * (k - 1)
                   + 6 * StdNormal(seed + h, k - 1)]]

\* simulate_price_trend(route, months, seed), run by a process in which
\* hash(route) = h, at the moment now
simulate_price_trend(months, seed, h, now) ==
    [month |-> DateRangeMonthly(now, months),
     values |-> [k \in 1..months |->
                   1000 * PriceBase(h) + 15 * Sin1000(k - 1) + 500 * (k - 1)
                   + 6 * StdNormal(seed, k - 1)]]

Max(a, b) == IF a >= b THEN a ELSE b

\* simulate_booking_counts(route, months, seed): whole numbers, by truncation;
\* 300 * (1 + 0.4 * sin) is 300000 + 120 * Sin1000 thousandths
simulate_booking_counts(months, seed, h, now) ==
    [month |-> DateRangeMonthly(now, months),
     values |-> [k \in 1..months |->
                   Max(0, 1000 * BookingBase(h) + 300000 + 120 * Sin1000(k - 1)
                          + 40 * StdNormal(seed, k - 1)) \div 1000]]

NoCall == [fn |-> "none"]

\* a call of simulate_price_trend
CallPriceTrend ==
    /\ \E route \in SimRoutes, months \in 0..MaxMonths, seed \in Seeds :
         last_call' = [fn |-> "price", route |-> route, months |-> months, seed |-> seed,
                       base |-> PriceBase(hash_secret[route]), today |-> Moments[clock],
                       df |-> simulate_price_trend(months, seed, hash_secret[route],
                                                   Moments[clock])]
    /\ prev_call' = last_call
    /\ UNCHANGED <<hash_secret, clock>>
    /\ UNCHANGED <<feedVars, liveVars>>

\* a call of simulate_booking_counts
CallBookingCounts ==
    /\ \E route \in SimRoutes, months \in 0..MaxMonths, seed \in Seeds :
         last_call' = [fn |-> "bookings", route |-> route, months |-> months, seed |-> seed,
                       base |-> BookingBase(hash_secret[route]), today |-> Moments[clock],
                       df |-> simulate_booking_counts(months, seed, hash_secret[route],
                                                      Moments[clock])]
    /\ prev_call' = last_call
    /\ UNCHANGED <<hash_secret, clock>>
    /\ UNCHANGED <<feedVars, liveVars>>

\* time passes
Tick ==
    /\ clock < Len(Moments)
    /\ clock' = clock + 1
    /\ UNCHANGED <<hash_secret, prev_call, last_call>>
    /\ UNCHANGED <<feedVars, liveVars>>

\* the application is started anew: another process, another hash secret
Restart ==
    /\ hash_secret' \in HashSecrets \ {hash_secret}
    /\ UNCHANGED <<clock, prev_call, last_call>>
    /\ UNCHANGED <<feedVars, liveVars>>

-----------------------------------------------------------------------------
FeedInit ==
    /\ pc = "start"
    /\ requests_sent = 0
    /\ airports_resp = NoResponse
    /\ routes_resp = NoResponse
    /\ error = "none"
    /\ airports = <<>>
    /\ routes_raw = <<>>
    /\ routes = <<>>
    /\ country_filter = All
    /\ routes_filtered = <<>>
    /\ route_counts = <<>>

\* the live flights section before any route is selected
LiveIdle ==
    /\ api_key = None
    /\ origin = None
    /\ destination = None
    /\ api_outcome = NotCalled
    /\ api_requests = 0
    /\ flights = [pagination |-> "x"]
    /\ shown = Nothing

Next ==
    \/ FetchOpenflights
    \/ PrepareRoutes
    \/ SidebarFilter
    \/ RouteRanking

\* no simulator has been called
SimIdle ==
    /\ hash_secret = [r \in SimRoutes |-> 7]
    /\ clock = 1
    /\ prev_call = NoCall
    /\ last_call = NoCall

vars == <<feedVars, liveVars, simVars>>

Init == FeedInit /\ LiveIdle /\ SimIdle

\* the feed pipeline of one script run
Spec == Init /\ [][Next]_vars

\* the feed pipeline before the feeds are fetched
FeedIdle == FeedInit

LiveInit ==
    /\ FeedIdle
    /\ SimIdle
    /\ api_key \in ApiKeys
    /\ origin = None
    /\ destination = None
    /\ api_outcome = NotCalled
    /\ api_requests = 0
    /\ flights = [pagination |-> "x"]
    /\ shown = Nothing

LiveNext ==
    \/ SelectRoute
    \/ GetLiveFlightsClick

\* the live flights section over the reruns of a session
SpecLive == LiveInit /\ [][LiveNext]_vars

SimInit ==
    /\ FeedIdle
    /\ LiveIdle
    /\ hash_secret \in HashSecrets
    /\ clock = 1
    /\ prev_call = NoCall
    /\ last_call = NoCall

SimNext ==
    \/ CallPriceTrend
    \/ CallBookingCounts
    \/ Tick
    \/ Restart

\* calls of the two simulators, by one process or several, as time passes
SpecSim == SimInit /\ [][SimNext]_vars


-----------------------------------------------------------------------------
(* Properties of the feed pipeline *)

\* the script run has got past prepare_routes
Built == pc \in {"prepared", "filtered", "ranked"}

Present(code) == code # NaN /\ code # Sentinel

\* the parsed route rows with both codes present and not the sentinel
EligibleRoutes ==
    LET Keep(r) == Present(r.SourceIATA) /\ Present(r.DestIATA)
    IN  SelectSeq(routes_raw, Keep)

\* C1: prepare_routes returns exactly one row for each route row whose
\* SourceIATA and DestIATA are both present and not the sentinel, in the rows'
\* order, whatever the airports table holds, and that row's route field is
\* SourceIATA + "-" + DestIATA.
C1_OneRowPerEligibleRoute ==
    Built =>
        /\ Len(routes) = Len(EligibleRoutes)
        /\ \A i \in 1..Len(routes) :
             /\ i <= Len(EligibleRoutes)
             /\ routes[i].SourceIATA = EligibleRoutes[i].SourceIATA
             /\ routes[i].DestIATA = EligibleRoutes[i].DestIATA
             /\ routes[i].route = routes[i].SourceIATA \o <<"-">> \o routes[i].DestIATA

\* C2: after fetch_openflights and prepare_routes no row of the enriched
\* route table has a SourceIATA or DestIATA that is missing or the sentinel.
C2_NoSentinelOrMissingEndpoint ==
    Built => \A i \in 1..Len(routes) :
                /\ Present(routes[i].SourceIATA)
                /\ Present(routes[i].DestIATA)

HasLine(body, line) == \E i \in 1..Len(body) : body[i] = line

\* a feed with a sentinel destination, an empty source and a good row went
\* through both functions
C2_Witness ==
    /\ pc = "prepared"
    /\ HasLine(routes_resp.body, RouteLine(SYD, Sentinel, 9))
    /\ HasLine(routes_resp.body, RouteLine(Empty, MEL, 9))
    /\ Len(routes) > 0

\* the rows of the enriched table the country filter lets through, by index
FilteredIndices ==
    {i \in 1..Len(routes) : country_filter = All \/ routes[i].SourceCountry = country_filter}

RECURSIVE SumCounts(_, _)
SumCounts(records, n) ==
    IF n = 0 THEN 0 ELSE records[n].count + SumCounts(records, n - 1)

\* C3: the ranking holds exactly one record per distinct route identifier of
\* the country-filtered table, its count is the number of filtered rows with
\* that identifier, and the counts sum to the filtered table's row count.
C3_OneRecordPerRouteWithItsCount ==
    pc = "ranked" =>
        /\ \A i \in FilteredIndices :
             \E k \in 1..Len(route_counts) :
                /\ route_counts[k].route = routes[i].route
                /\ route_counts[k].count =
                     Cardinality({j \in FilteredIndices : routes[j].route = routes[i].route})
        /\ \A k \in 1..Len(route_counts) :
             /\ \E i \in FilteredIndices : routes[i].route = route_counts[k].route
             /\ \A m \in 1..Len(route_counts) :
                  route_counts[m].route = route_counts[k].route => m = k
        /\ SumCounts(route_counts, Len(route_counts)) = Cardinality(FilteredIndices)
        /\ Len(routes_filtered) = Cardinality(FilteredIndices)

\* three SYD-MEL rows and one SYD-BNE row, filtered by "Australia", ranked
C3_Witness ==
    /\ pc = "ranked"
    /\ country_filter = Australia
    /\ Len(routes_filtered) = 4
    /\ route_counts = << [route |-> SYD \o <<"-">> \o MEL, count |-> 3],
                         [route |-> SYD \o <<"-">> \o BNE, count |-> 1] >>

\* the index of the first filtered row with this route identifier
FirstSeen(id) ==
    CHOOSE i \in 1..Len(routes_filtered) :
        /\ routes_filtered[i].route = id
        /\ \A j \in 1..(i - 1) : routes_filtered[j].route # id

FeedFailed ==
    \/ airports_resp.kind \in {"http_error", "transport_error"}
    \/ routes_resp.kind \in {"http_error", "transport_error"}

\* C9: if retrieving either feed fails (transport failure or non-success
\* response) the fetch is not retried, the run ends with a fetch failure, and
\* no route network or ranking is built from the failed payload.
C9_FeedFailureBlocks ==
    FeedFailed =>
        /\ requests_sent <= 2
        /\ pc = "crashed"
        /\ error \in {"ConnectionError", "HTTPError"}
        /\ routes = <<>>
        /\ route_counts = <<>>

CountLines(body, n) == Cardinality({i \in 1..Len(body) : Len(body[i]) = n})

\* C10: every line whose field count differs from the schema's (14 for
\* airports, 9 for routes) is absent from the parsed table, every well-formed
\* line is parsed, and parsing never fails because of such lines.
C10_MalformedRowsDropped ==
    (/\ airports_resp.kind = "ok" /\ routes_resp.kind = "ok"
     /\ Len(airports_resp.body) > 0 /\ Len(routes_resp.body) > 0) =>
        /\ error = "none"
        /\ Len(airports) = CountLines(airports_resp.body, 14)
        /\ Len(routes_raw) =
             Cardinality({i \in 1..Len(routes_resp.body) :
                            /\ Len(routes_resp.body[i]) = 9
                            /\ routes_resp.body[i][3] \notin NaValues
                            /\ routes_resp.body[i][5] \notin NaValues})

-----------------------------------------------------------------------------
(* Properties of the live flights section *)

\* the last click ended in a failure: no key, or a failed request
LiveFailure ==
    \/ Falsy(api_key)
    \/ api_outcome.kind \in {"timeout", "connection_error", "http_error", "malformed_json"}

\* the last click got a 2xx response with no flight record
LiveEmptySuccess ==
    /\ ~Falsy(api_key)
    /\ api_outcome.kind = "ok"
    /\ "data" \in DOMAIN api_outcome.body => Len(api_outcome.body.data) = 0

\* C8: on a failure (missing credentials, for which no request is issued;
\* timeout; non-2xx response; malformed JSON) get_live_flights returns a
\* failure value and the caller shows the error message, never the
\* information message; on a successful response with zero flight records
\* the caller shows the information message, never an error.
C8_FailureDistinctFromEmpty ==
    /\ shown.kind # "nothing" /\ LiveFailure =>
          /\ "error" \in DOMAIN flights
          /\ shown = [kind |-> "error", text |-> flights.error]
    /\ shown.kind # "nothing" /\ LiveEmptySuccess =>
          /\ "error" \notin DOMAIN flights
          /\ shown.kind = "info"
    /\ Falsy(api_key) => api_requests = 0

\* a click without a key after which nothing was requested, and the error shown
C8_Witness ==
    /\ Falsy(api_key)
    /\ shown.kind = "error"
    /\ api_requests = 0

-----------------------------------------------------------------------------
(* Properties of the trend simulators *)

SameArguments ==
    /\ prev_call.fn = last_call.fn
    /\ prev_call.fn # "none"
    /\ prev_call.route = last_call.route
    /\ prev_call.months = last_call.months
    /\ prev_call.seed = last_call.seed

\* C5: two calls of simulate_price_trend, and two calls of
\* simulate_booking_counts, with equal (route, months, seed) return identical
\* series, whatever the process and the time of the call.
C5_EqualArgumentsEqualSeries ==
    SameArguments => prev_call.df = last_call.df

\* two calls of simulate_price_trend for different routes, same months and seed
TwoRoutesSameSeed ==
    /\ prev_call.fn = "price"
    /\ last_call.fn = "price"
    /\ prev_call.route # last_call.route
    /\ prev_call.months = last_call.months
    /\ prev_call.seed = last_call.seed

\* the two price series differ at every month index by the difference of
\* the baselines: the noise offsets are the same
SameNoiseOffsets ==
    \A k \in 1..last_call.months :
        last_call.df.values[k] - prev_call.df.values[k]
            = 1000 * (last_call.base - prev_call.base)

\* C6 as stated: for two different routes with the same months and seed the
\* noise offsets are the same at every index and the baselines are different.
C6_SameNoiseDifferentBaselines ==
    TwoRoutesSameSeed => SameNoiseOffsets /\ prev_call.base # last_call.base

\* C6, amended: for two different routes with the same months and seed the
\* price series differ at every index by the difference of their baselines
\* (which may be zero: two routes may have the same baseline).
C6_SameNoiseOffsets ==
    TwoRoutesSameSeed => SameNoiseOffsets

\* two routes with different baselines simulated over several months
C6_Witness ==
    /\ TwoRoutesSameSeed
    /\ last_call.months >= 2
    /\ prev_call.base # last_call.base

TimestampLess(a, b) ==
    \/ a.y < b.y
    \/ a.y = b.y /\ a.m < b.m
    \/ a.y = b.y /\ a.m = b.m /\ a.d < b.d
    \/ a.y = b.y /\ a.m = b.m /\ a.d = b.d /\ a.tod < b.tod

\* C7: a series has exactly `months` points, its timestamps are strictly
\* increasing, one calendar month apart, and the last one lies in the
\* calendar month of the generation date.
C7_MonthAxisEndsInCurrentMonth ==
    last_call.fn # "none" =>
        LET month == last_call.df.month
            n == last_call.months
        IN  /\ Len(month) = n
            /\ Len(last_call.df.values) = n
            /\ \A k \in 1..(n - 1) :
                 /\ TimestampLess(month[k], month[k + 1])
                 /\ MonthIndex(month[k + 1]) = MonthIndex(month[k]) + 1
            /\ n >= 1 => MonthIndex(month[n]) = MonthIndex(last_call.today)

====
